---- MODULE Spec2Model ----
(***************************************************************************)
(* Model of the tCam-Mini command/response layer,                          *)
(* ESP32/tCam-Mini/firmware/components/cmd/json_utilities.c.               *)
(*                                                                         *)
(* The module holds four state machines over one set of variables:         *)
(*   SpecValid  the argument validators json_parse_set_config,             *)
(*              json_parse_set_spotmeter and json_parse_set_time           *)
(*   SpecWifi   json_parse_set_wifi and the IP parser                      *)
(*   SpecRsp    json_generate_response_string on the response buffer       *)
(*   SpecImage  json_get_image_file_string and the base64 scratch buffers  *)
(* A specification leaves the variables of the other three at their        *)
(* initial values.                                                         *)
(***************************************************************************)
EXTENDS Integers, Sequences, FiniteSets, TLC

VARIABLES
    \* ---- validators
    pcv,            \* "ready" before the validator call, "done" after it
    cmd,            \* the validator that is called
    cmd_args,       \* [null, has, val]: the args node, NULL or a set of fields
    lep_st,         \* system_get_lep_st(): the current configuration snapshot
    new_st,         \* json_parse_set_config's output structure
    spot,           \* json_parse_set_spotmeter's outputs *r1, *c1, *r2, *c2
    te,             \* json_parse_set_time's output tmElements_t
    old,            \* the outputs as they were when the validator was called
    ret,            \* the validator's return value
    \* ---- wifi settings and the IP parser
    wifi_info,      \* wifi_get_info(): the current wifi settings
    new_wifi_info,  \* json_parse_set_wifi's output structure
    ip_string,      \* json_ip_string_to_array's input
    ip_array,       \* json_ip_string_to_array's output
    ip_text,        \* json_get_wifi's local char ip_string[16]
    \* ---- the response buffer
    json_response_text, \* the memory at json_response_text, index 0 upwards
    beyond,         \* the indices written at or beyond the buffer's capacity
    rsp,            \* the last response build: its text, outcome and length
    \* ---- the image build and the base64 scratch buffers
    pc,             \* the position of json_get_image_file_string
    base64_lep_data,        \* the static pointer: NULL or a heap address
    base64_lep_telem_data,  \* the static pointer: NULL or a heap address
    live,           \* the heap addresses that are allocated
    success,        \* json_get_image_file_string's local
    len,            \* json_get_image_file_string's local, its return value
    trace,          \* the allocations, encodes, print and frees of this call
    badfree,        \* free() was handed an address that is not allocated
    \* ---- the command parser
    cmd_obj,        \* json_parse_cmd's input: the "cmd" and "args" items
    cmd_out,        \* json_parse_cmd's output *cmd, json_get_cmd_name's input
    args_out,       \* json_parse_cmd's output *cmd_args
    cmd_name        \* json_get_cmd_name's return value

vars == <<pcv, cmd, cmd_args, lep_st, new_st, spot, te, old, ret,
          wifi_info, new_wifi_info, ip_string, ip_array, ip_text,
          json_response_text, beyond, rsp,
          pc, base64_lep_data, base64_lep_telem_data, live, success, len, trace, badfree,
          cmd_obj, cmd_out, args_out, cmd_name>>

validVars == <<pcv, cmd, cmd_args, lep_st, new_st, spot, te, old, ret>>
wifiVars == <<wifi_info, new_wifi_info, ip_string, ip_array, ip_text>>
rspVars == <<json_response_text, beyond, rsp>>
imgVars == <<pc, base64_lep_data, base64_lep_telem_data, live, success, len, trace, badfree>>
cmdVars == <<cmd_obj, cmd_out, args_out, cmd_name>>

(***************************************************************************)
(* Program constants set in headers that json_utilities.c includes.        *)
(***************************************************************************)
\* vospi.h: the Lepton 3.5 frame is 160 x 120 pixels
LEP_WIDTH == 160
LEP_HEIGHT == 120
\* lepton_utilities.h: SYS_GAIN_HIGH 0, SYS_GAIN_LOW 1, SYS_GAIN_AUTO 2
SYS_GAIN_AUTO == 2
\* cJSON's valueint is an int: a number beyond it is stored as INT_MAX
INT_MAX == 2147483647

(***************************************************************************)
(* The args node.  cJSON_HasObjectItem(cmd_args, f) is f \in has, and      *)
(* cJSON_GetObjectItem(cmd_args, f)->valueint is val[f].  A field that is  *)
(* absent has val[f] = 0, so that an args node has one representation.     *)
(***************************************************************************)
ConfigFields == {"agc_enabled", "emissivity", "gain_mode"}
SpotFields == {"r1", "c1", "r2", "c2"}
TimeFields == {"sec", "min", "hour", "dow", "day", "mon", "year"}

ArgsOver(fields, Vals) ==
    {[null |-> FALSE,
      has |-> {f \in fields : v[f].p},
      val |-> [f \in fields |-> v[f].x]] :
        v \in [fields -> {[p |-> FALSE, x |-> 0]} \cup {[p |-> TRUE, x |-> y] : y \in Vals}]}

NullArgs(fields) == [null |-> TRUE, has |-> {}, val |-> [f \in fields |-> 0]]

HasObjectItem(args, f) == f \in args.has
valueint(args, f) == args.val[f]

\* item_count++ in a branch that is taken when the field is present
Count(args, f) == IF HasObjectItem(args, f) THEN 1 ELSE 0

(***************************************************************************)
(* The variables of a state machine that a specification does not use.     *)
(***************************************************************************)
\* json_utilities.h: the capacity of json_response_text, scaled down
JSON_MAX_RSP_TEXT_LEN == 5

\* the memory of the model: the buffer, indices 0..JSON_MAX_RSP_TEXT_LEN-1,
\* and the two bytes that follow it on the heap
Memory == 0..(JSON_MAX_RSP_TEXT_LEN + 1)

RspNone == [kind |-> 0, text |-> <<>>, root |-> FALSE, printed |-> FALSE, len |-> 0]

RspIdle ==
    /\ json_response_text = [k \in Memory |-> 0]
    /\ beyond = {}
    /\ rsp = RspNone

\* lines 83-84: the static pointers are NULL and nothing is allocated
NULL == 0

ImgIdle ==
    /\ pc = "idle"
    /\ base64_lep_data = NULL
    /\ base64_lep_telem_data = NULL
    /\ live = {}
    /\ success = FALSE
    /\ len = 0
    /\ trace = <<>>
    /\ badfree = FALSE

\* a cJSON item as the command parser sees it: absent, a number or a string
NoItem == [kind |-> "absent", text |-> ""]
NumberItem == [kind |-> "number", text |-> ""]
TextItem(t) == [kind |-> "string", text |-> t]

\* the variables of the command parser, when they are not used
CmdIdle ==
    /\ cmd_obj = [cmd |-> NoItem, args |-> FALSE]
    /\ cmd_out = 0
    /\ args_out = "unset"
    /\ cmd_name = ""

(***************************************************************************)
(* json_parse_set_config                                                   *)
(***************************************************************************)
\* the values an args field of set_config takes in the model
ConfigVals == {-1, 0, 1, SYS_GAIN_AUTO, SYS_GAIN_AUTO + 1, 100, 101, 500, INT_MAX}

\* the snapshots system_get_lep_st() returns: each within the ConfigSnapshot ranges
ConfigSnapshots ==
    {[agc_set_enabled |-> FALSE, emissivity |-> 98, gain_mode |-> 0],
     [agc_set_enabled |-> TRUE, emissivity |-> 1, gain_mode |-> SYS_GAIN_AUTO]}

\* new_st as the caller hands it in: not yet written, so any content
ConfigUnset ==
    {[agc_set_enabled |-> FALSE, emissivity |-> 0, gain_mode |-> 0],
     [agc_set_enabled |-> TRUE, emissivity |-> 77, gain_mode |-> 1]}

\* lines 382-383
ClampEmissivity(i) == IF i < 1 THEN 1 ELSE IF i > 100 THEN 100 ELSE i

\* line 389: gain_mode has an upper clamp only
ClampGainMode(i) == IF i > SYS_GAIN_AUTO THEN SYS_GAIN_AUTO ELSE i

\* ConfigCopy with the gain_mode copy of line 372 left out
ConfigCopy_no_gain_mode(cur, st) ==
    [st EXCEPT !.agc_set_enabled = cur.agc_set_enabled,
               !.emissivity = cur.emissivity]

\* lines 370-372: the existing settings, copied before args is looked at
ConfigCopy(cur, st) ==
    [st EXCEPT !.agc_set_enabled = cur.agc_set_enabled,
               !.emissivity = cur.emissivity,
               !.gain_mode = cur.gain_mode]

\* line 393
ConfigReturn(item_count) == item_count > 0

\* new_st after the call, lines 370-391
ConfigOut(args, cur, st) ==
    LET s0 == ConfigCopy(cur, st)
        s1 == IF ~args.null /\ HasObjectItem(args, "agc_enabled")
              THEN [s0 EXCEPT !.agc_set_enabled = valueint(args, "agc_enabled") > 0]
              ELSE s0
        s2 == IF ~args.null /\ HasObjectItem(args, "emissivity")
              THEN [s1 EXCEPT !.emissivity = ClampEmissivity(valueint(args, "emissivity"))]
              ELSE s1
        s3 == IF ~args.null /\ HasObjectItem(args, "gain_mode")
              THEN [s2 EXCEPT !.gain_mode = ClampGainMode(valueint(args, "gain_mode"))]
              ELSE s2
    IN s3

ConfigRet(args) ==
    IF args.null THEN FALSE
    ELSE ConfigReturn(Count(args, "agc_enabled") + Count(args, "emissivity")
                      + Count(args, "gain_mode"))

json_parse_set_config ==
    /\ pcv = "ready"
    /\ cmd = "set_config"
    /\ new_st' = ConfigOut(cmd_args, lep_st, new_st)
    /\ ret' = ConfigRet(cmd_args)
    /\ pcv' = "done"
    /\ UNCHANGED <<cmd, cmd_args, lep_st, spot, te, old, wifiVars, rspVars, imgVars, cmdVars>>

(***************************************************************************)
(* json_parse_set_spotmeter                                                *)
(***************************************************************************)
\* the values an args field of set_spotmeter takes in the model
SpotVals == {-1, 0, 5, LEP_HEIGHT - 1, LEP_WIDTH - 1, 200}

\* the caller's r1, c1, r2, c2 before the call
SpotBefore ==
    {[r1 |-> 10, c1 |-> 20, r2 |-> 30, c2 |-> 40],
     [r1 |-> 0, c1 |-> 0, r2 |-> LEP_HEIGHT - 1, c2 |-> LEP_WIDTH - 1]}

\* lines 411-412 and 419-420: the first corner, within [0, limit - 2]
ClampFirst(i, limit) == IF i < 0 THEN 0 ELSE IF i > limit - 2 THEN limit - 2 ELSE i

\* ClampSecond with the lower test of lines 427 and 435 left out
ClampSecond_upper_only(i, first, limit) == IF i > limit - 1 THEN limit - 1 ELSE i

\* lines 427-428 and 435-436: the second corner, above the first one and within
\* the frame; the upper clamp is applied last
ClampSecond(i, first, limit) ==
    LET j == IF i < first + 1 THEN first + 1 ELSE i
    IN IF j > limit - 1 THEN limit - 1 ELSE j

\* SpotReturn accepting three of the four fields
SpotReturn_three(item_count) == item_count >= 3

\* line 441
SpotReturn(item_count) == item_count = 4

\* *r1, *c1, *r2, *c2 after the call, lines 409-439: each present field is
\* stored as it is met, r2 and c2 reading the *r1 and *c1 of that moment
SpotOut(args, sp) ==
    IF args.null THEN sp
    ELSE LET nr1 == IF HasObjectItem(args, "r1")
                    THEN ClampFirst(valueint(args, "r1"), LEP_HEIGHT) ELSE sp.r1
             nc1 == IF HasObjectItem(args, "c1")
                    THEN ClampFirst(valueint(args, "c1"), LEP_WIDTH) ELSE sp.c1
             nr2 == IF HasObjectItem(args, "r2")
                    THEN ClampSecond(valueint(args, "r2"), nr1, LEP_HEIGHT) ELSE sp.r2
             nc2 == IF HasObjectItem(args, "c2")
                    THEN ClampSecond(valueint(args, "c2"), nc1, LEP_WIDTH) ELSE sp.c2
         IN [r1 |-> nr1, c1 |-> nc1, r2 |-> nr2, c2 |-> nc2]

SpotRet(args) ==
    IF args.null THEN FALSE
    ELSE SpotReturn(Count(args, "r1") + Count(args, "c1")
                    + Count(args, "r2") + Count(args, "c2"))

json_parse_set_spotmeter ==
    /\ pcv = "ready"
    /\ cmd = "set_spotmeter"
    /\ spot' = SpotOut(cmd_args, spot)
    /\ ret' = SpotRet(cmd_args)
    /\ pcv' = "done"
    /\ UNCHANGED <<cmd, cmd_args, lep_st, new_st, te, old, wifiVars, rspVars, imgVars, cmdVars>>

(***************************************************************************)
(* json_parse_set_time                                                     *)
(***************************************************************************)
\* the values an args field of set_time takes in the model
TimeVals == {7, 300}

\* the member of tmElements_t that each args field is stored in
TimeMember ==
    [sec |-> "Second", min |-> "Minute", hour |-> "Hour", dow |-> "Wday",
     day |-> "Day", mon |-> "Month", year |-> "Year"]

\* the caller's tmElements_t before the call
TimeBefore ==
    {[Second |-> 1, Minute |-> 2, Hour |-> 3, Wday |-> 4, Day |-> 5, Month |-> 6, Year |-> 51],
     [Second |-> 59, Minute |-> 59, Hour |-> 23, Wday |-> 7, Day |-> 31, Month |-> 12, Year |-> 50]}

\* the members of tmElements_t are uint8_t: the int is stored modulo 256
ToUint8(i) == i % 256

\* line 491
TimeReturn(item_count) == item_count = 7

\* *te after the call, lines 456-489: each present field is stored as it is met
TimeOut(args, t) ==
    IF args.null THEN t
    ELSE [m \in DOMAIN t |->
            LET f == CHOOSE g \in TimeFields : TimeMember[g] = m
            IN IF HasObjectItem(args, f) THEN ToUint8(valueint(args, f)) ELSE t[m]]

TimeRet(args) ==
    IF args.null THEN FALSE
    ELSE TimeReturn(Count(args, "sec") + Count(args, "min") + Count(args, "hour")
                    + Count(args, "dow") + Count(args, "day") + Count(args, "mon")
                    + Count(args, "year"))

json_parse_set_time ==
    /\ pcv = "ready"
    /\ cmd = "set_time"
    /\ te' = TimeOut(cmd_args, te)
    /\ ret' = TimeRet(cmd_args)
    /\ pcv' = "done"
    /\ UNCHANGED <<cmd, cmd_args, lep_st, new_st, spot, old, wifiVars, rspVars, imgVars, cmdVars>>

(***************************************************************************)
(* The validators' specification: one call of one validator, on every      *)
(* args node and every content of the caller's outputs.                    *)
(***************************************************************************)
\* the variables of the wifi settings and the IP parser, when they are not used
WifiNone ==
    [ap_ssid |-> <<>>, sta_ssid |-> <<>>, ap_pw |-> <<>>, sta_pw |-> <<>>, flags |-> 0,
     ap_ip_addr |-> [k \in 0..3 |-> 0], sta_ip_addr |-> [k \in 0..3 |-> 0],
     sta_netmask |-> [k \in 0..3 |-> 0], cur_ip_addr |-> [k \in 0..3 |-> 0]]

WifiIdle ==
    /\ wifi_info = WifiNone
    /\ new_wifi_info = WifiNone
    /\ ip_string = <<>>
    /\ ip_array = [k \in 0..3 |-> 0]
    /\ ip_text = <<>>

SpotIdle == [r1 |-> 0, c1 |-> 0, r2 |-> 0, c2 |-> 0]
TimeIdle ==
    [Second |-> 0, Minute |-> 0, Hour |-> 0, Wday |-> 0, Day |-> 0, Month |-> 0, Year |-> 0]
ConfigIdle == [agc_set_enabled |-> FALSE, emissivity |-> 1, gain_mode |-> 0]

InitValid ==
    /\ pcv = "ready"
    /\ ret = FALSE
    /\ \/ /\ cmd = "set_config"
          /\ cmd_args \in ArgsOver(ConfigFields, ConfigVals) \cup {NullArgs(ConfigFields)}
          /\ lep_st \in ConfigSnapshots
          /\ new_st \in ConfigUnset
          /\ spot = SpotIdle
          /\ te = TimeIdle
       \/ /\ cmd = "set_spotmeter"
          /\ cmd_args \in ArgsOver(SpotFields, SpotVals) \cup {NullArgs(SpotFields)}
          /\ lep_st = ConfigIdle
          /\ new_st = ConfigIdle
          /\ spot \in SpotBefore
          /\ te = TimeIdle
       \/ /\ cmd = "set_time"
          /\ cmd_args \in ArgsOver(TimeFields, TimeVals) \cup {NullArgs(TimeFields)}
          /\ lep_st = ConfigIdle
          /\ new_st = ConfigIdle
          /\ spot = SpotIdle
          /\ te \in TimeBefore
    /\ old = [lep_st |-> lep_st, new_st |-> new_st, spot |-> spot, te |-> te]
    /\ WifiIdle
    /\ RspIdle
    /\ ImgIdle
    /\ CmdIdle

NextValid ==
    \/ json_parse_set_config
    \/ json_parse_set_spotmeter
    \/ json_parse_set_time

SpecValid == InitValid /\ [][NextValid]_vars

(***************************************************************************)
(* json_ip_string_to_array                                                 *)
(***************************************************************************)
\* the longest address string of the model
MaxIpLen == 7

\* the characters of an address string in the model: two digits, the
\* separator and a character that is neither
IpChars == {"1", "9", ".", "x"}

\* c - '0' for a decimal digit c
DigitValue ==
    [c \in {"0", "1", "2", "3", "4", "5", "6", "7", "8", "9"} |->
        CASE c = "0" -> 0 [] c = "1" -> 1 [] c = "2" -> 2 [] c = "3" -> 3 [] c = "4" -> 4
          [] c = "5" -> 5 [] c = "6" -> 6 [] c = "7" -> 7 [] c = "8" -> 8 [] c = "9" -> 9]

\* line 852
IsDigit(c) == c \in DOMAIN DigitValue

IpStrings == UNION {[1..n -> IpChars] : n \in 0..MaxIpLen}

\* a uint8_t[4] that nothing has written yet: any content
IpUnset == {[k \in 0..3 |-> 0], [k \in 0..3 |-> 77]}

\* line 854: the next digit, in a uint8_t
AddDigit(b, c) == (b * 10 + DigitValue[c]) % 256

\* line 845: a separator met when the last byte is being filled
TooManySeparators(i) == i = 0

\* lines 843-859: the loop from character n of s on, i the byte being filled
RECURSIVE IpScan(_, _, _, _)
IpScan(arr, i, s, n) ==
    IF n > Len(s) THEN [ok |-> TRUE, arr |-> arr]
    ELSE IF s[n] = "." THEN
            IF TooManySeparators(i) THEN [ok |-> FALSE, arr |-> arr]
            ELSE IpScan([arr EXCEPT ![i - 1] = 0], i - 1, s, n + 1)
    ELSE IF IsDigit(s[n]) THEN
            IpScan([arr EXCEPT ![i] = AddDigit(arr[i], s[n])], i, s, n + 1)
    ELSE [ok |-> FALSE, arr |-> arr]

\* lines 837-862: the return value and the array as the call leaves it
IpStringToArray(arr, s) == IpScan([arr EXCEPT ![3] = 0], 3, s, 1)

json_ip_string_to_array ==
    /\ pcv = "ready"
    /\ cmd = "ip"
    /\ ip_array' = IpStringToArray(ip_array, ip_string).arr
    /\ ret' = IpStringToArray(ip_array, ip_string).ok
    /\ pcv' = "done"
    /\ UNCHANGED <<cmd, cmd_args, lep_st, new_st, spot, te, old, wifi_info,
                   new_wifi_info, ip_string, ip_text, rspVars, imgVars, cmdVars>>

IpIdle == ip_string = <<>> /\ ip_array = [k \in 0..3 |-> 0] /\ ip_text = <<>>

ValidIdle ==
    /\ cmd_args = NullArgs({})
    /\ lep_st = ConfigIdle
    /\ new_st = ConfigIdle
    /\ spot = SpotIdle
    /\ te = TimeIdle

InitIp ==
    /\ pcv = "ready"
    /\ cmd = "ip"
    /\ ret = FALSE
    /\ ValidIdle
    /\ wifi_info = WifiNone
    /\ new_wifi_info = WifiNone
    /\ ip_string \in IpStrings
    /\ ip_array \in IpUnset
    /\ ip_text = <<>>
    /\ old = [ip_array |-> ip_array]
    /\ RspIdle
    /\ ImgIdle
    /\ CmdIdle

NextIp == json_ip_string_to_array

SpecIp == InitIp /\ [][NextIp]_vars

(***************************************************************************)
(* The address text of json_get_wifi: sprintf "%d.%d.%d.%d" of a byte      *)
(* array, index 3 first, applied here to the array the parser has filled.  *)
(***************************************************************************)
\* the character of a decimal digit
DigitChar == [d \in 0..9 |-> CHOOSE c \in DOMAIN DigitValue : DigitValue[c] = d]

\* "%d" of a value that is not negative
RECURSIVE Decimal(_)
Decimal(v) ==
    IF v < 10 THEN <<DigitChar[v]>> ELSE Decimal(v \div 10) \o <<DigitChar[v % 10]>>

\* lines 293-296: sprintf(ip_string, "%d.%d.%d.%d", a[3], a[2], a[1], a[0])
IpArrayToString(a) ==
    Decimal(a[3]) \o <<".">> \o Decimal(a[2]) \o <<".">> \o Decimal(a[1]) \o <<".">> \o Decimal(a[0])

\* the format step of json_get_wifi on the array of a finished parse
sprintf_ip_string ==
    /\ pcv = "done"
    /\ cmd = "ip"
    /\ ip_text' = IpArrayToString(ip_array)
    /\ pcv' = "formatted"
    /\ UNCHANGED <<cmd, cmd_args, lep_st, new_st, spot, te, old, ret, wifi_info,
                   new_wifi_info, ip_string, ip_array, rspVars, imgVars, cmdVars>>

\* the segments of the address strings that are parsed and formatted back
IpSegments ==
    {<<>>, <<"0">>, <<"7">>, <<"0", "1">>, <<"1", "9">>, <<"2", "5", "5">>,
     <<"2", "5", "6">>, <<"9", "9", "9">>}

\* the segments of k joined by separators
RECURSIVE JoinSegments(_)
JoinSegments(k) ==
    IF Len(k) = 0 THEN <<>>
    ELSE IF Len(k) = 1 THEN k[1]
    ELSE k[1] \o <<".">> \o JoinSegments(Tail(k))

\* address strings of three and of four segments
DottedStrings ==
    {JoinSegments(k) : k \in [1..3 -> IpSegments] \cup [1..4 -> IpSegments]}

InitIpText ==
    /\ pcv = "ready"
    /\ cmd = "ip"
    /\ ret = FALSE
    /\ ValidIdle
    /\ wifi_info = WifiNone
    /\ new_wifi_info = WifiNone
    /\ ip_string \in DottedStrings
    /\ ip_array \in IpUnset
    /\ ip_text = <<>>
    /\ old = [ip_array |-> ip_array]
    /\ RspIdle
    /\ ImgIdle
    /\ CmdIdle

NextIpText == json_ip_string_to_array \/ sprintf_ip_string

SpecIpText == InitIpText /\ [][NextIpText]_vars

(***************************************************************************)
(* json_parse_set_wifi                                                     *)
(***************************************************************************)
\* ps_utilities.h: the longest SSID and the longest password, scaled down
PS_SSID_MAX_LEN == 2
PS_PW_MAX_LEN == 3

SsidFields == {"ap_ssid", "sta_ssid"}
PwFields == {"ap_pw", "sta_pw"}
AddrFields == {"ap_ip_addr", "sta_ip_addr", "sta_netmask"}
WifiFields == SsidFields \cup PwFields \cup {"flags"} \cup AddrFields

\* the order in which json_parse_set_wifi looks at the fields
WifiOrder ==
    <<"ap_ssid", "sta_ssid", "ap_pw", "sta_pw", "flags",
      "ap_ip_addr", "sta_ip_addr", "sta_netmask">>

\* a text of n characters
Text(n) == [k \in 1..n |-> "a"]

\* the values an args field of set_wifi takes in the model, numbered from 1:
\* a text of the longest length and one character more, a flags value within
\* and beyond eight bits, an address of four segments, one with a letter, one
\* with four separators and one of two segments; value 0 stands for the field
\* being absent
WifiChoices(f) == IF f \in AddrFields THEN 0..4 ELSE 0..2

WifiVal(f, k) ==
    IF f \in SsidFields THEN (IF k = 0 THEN <<>> ELSE Text(PS_SSID_MAX_LEN + k - 1))
    ELSE IF f \in PwFields THEN (IF k = 0 THEN <<>> ELSE Text(PS_PW_MAX_LEN + k - 1))
    ELSE IF f = "flags" THEN (CASE k = 0 -> 0 [] k = 1 -> 5 [] k = 2 -> 300)
    ELSE CASE k = 0 -> <<>>
           [] k = 1 -> <<"1", ".", "9", ".", "1", "9", ".", "9">>
           [] k = 2 -> <<"1", ".", "x">>
           [] k = 3 -> <<".", ".", ".", ".">>
           [] k = 4 -> <<"1", ".", "9">>

\* the args nodes of set_wifi: has is the set of fields present, val[f] the
\* valuestring or valueint of a present field
WifiArgs ==
    {[null |-> FALSE,
      has |-> {f \in WifiFields : ch[f] # 0},
      val |-> [f \in WifiFields |-> WifiVal(f, ch[f])]] :
        ch \in {c \in [WifiFields -> 0..4] : \A f \in WifiFields : c[f] \in WifiChoices(f)}}

\* the settings wifi_get_info() returns
WifiCurrent ==
    [ap_ssid |-> <<"c">>, sta_ssid |-> <<"s">>, ap_pw |-> <<"p">>, sta_pw |-> <<"q">>,
     flags |-> 129,
     ap_ip_addr |-> [k \in 0..3 |-> 10 + k], sta_ip_addr |-> [k \in 0..3 |-> 20 + k],
     sta_netmask |-> [k \in 0..3 |-> 255 - k], cur_ip_addr |-> [k \in 0..3 |-> 30 + k]]

\* new_wifi_info as the caller hands it in: not yet written, so any content
WifiUnset ==
    {WifiNone,
     [ap_ssid |-> <<"?">>, sta_ssid |-> <<"?">>, ap_pw |-> <<"?">>, sta_pw |-> <<"?">>,
      flags |-> 77,
      ap_ip_addr |-> [k \in 0..3 |-> 77], sta_ip_addr |-> [k \in 0..3 |-> 77],
      sta_netmask |-> [k \in 0..3 |-> 77], cur_ip_addr |-> [k \in 0..3 |-> 77]]}

\* TextFits taking strlen(s) < max + 2 for strlen(s) <= max
TextFits_one_more(s, max) == Len(s) <= max + 1

\* lines 515, 528, 541, 554: strlen(s) <= PS_SSID_MAX_LEN, PS_PW_MAX_LEN
TextFits(s, max) == Len(s) <= max

TextMax(f) == IF f \in SsidFields THEN PS_SSID_MAX_LEN ELSE PS_PW_MAX_LEN

\* line 611
WifiReturn(item_count) == item_count > 0

\* one if/else block of lines 513-606, on st = [out, item_count, failed]: a
\* present field is checked and stored, or stops the call; an absent field is
\* copied from the current settings
WifiField(st, f, args, cur) ==
    IF st.failed THEN st
    ELSE IF ~HasObjectItem(args, f) THEN [st EXCEPT !.out[f] = cur[f]]
    ELSE IF f \in SsidFields \cup PwFields THEN
            IF TextFits(args.val[f], TextMax(f))
            THEN [st EXCEPT !.out[f] = args.val[f], !.item_count = @ + 1]
            ELSE [st EXCEPT !.failed = TRUE]
    ELSE IF f = "flags" THEN
            [st EXCEPT !.out[f] = ToUint8(args.val[f]), !.item_count = @ + 1]
    ELSE LET r == IpStringToArray(st.out[f], args.val[f])
         IN IF r.ok
            THEN [st EXCEPT !.out[f] = r.arr, !.item_count = @ + 1]
            ELSE [st EXCEPT !.out[f] = r.arr, !.failed = TRUE]

RECURSIVE WifiFields_from(_, _, _, _)
WifiFields_from(st, n, args, cur) ==
    IF n > Len(WifiOrder) THEN st
    ELSE WifiFields_from(WifiField(st, WifiOrder[n], args, cur), n + 1, args, cur)

\* lines 512-614: the return value and *new_wifi_info as the call leaves it
WifiResult(args, cur, out) ==
    IF args.null THEN [ret |-> FALSE, out |-> out]
    ELSE LET st == WifiFields_from([out |-> out, item_count |-> 0, failed |-> FALSE],
                                   1, args, cur)
         IN IF st.failed THEN [ret |-> FALSE, out |-> st.out]
            ELSE [ret |-> WifiReturn(st.item_count),
                  out |-> [st.out EXCEPT !.cur_ip_addr = cur.cur_ip_addr]]

json_parse_set_wifi ==
    /\ pcv = "ready"
    /\ cmd = "set_wifi"
    /\ new_wifi_info' = WifiResult(cmd_args, wifi_info, new_wifi_info).out
    /\ ret' = WifiResult(cmd_args, wifi_info, new_wifi_info).ret
    /\ pcv' = "done"
    /\ UNCHANGED <<cmd, cmd_args, lep_st, new_st, spot, te, old, wifi_info,
                   ip_string, ip_array, ip_text, rspVars, imgVars, cmdVars>>

InitWifi ==
    /\ pcv = "ready"
    /\ cmd = "set_wifi"
    /\ ret = FALSE
    /\ cmd_args \in WifiArgs
                    \cup {[null |-> TRUE, has |-> {}, val |-> [f \in WifiFields |-> WifiVal(f, 0)]]}
    /\ lep_st = ConfigIdle
    /\ new_st = ConfigIdle
    /\ spot = SpotIdle
    /\ te = TimeIdle
    /\ wifi_info = WifiCurrent
    /\ new_wifi_info \in WifiUnset
    /\ IpIdle
    /\ old = [wifi_info |-> wifi_info, new_wifi_info |-> new_wifi_info]
    /\ RspIdle
    /\ ImgIdle
    /\ CmdIdle

NextWifi == json_parse_set_wifi

SpecWifi == InitWifi /\ [][NextWifi]_vars

(***************************************************************************)
(* The response buffer and json_generate_response_string                   *)
(***************************************************************************)
\* cmd_task.h: the delimiters of a response sent over the socket
CMD_JSON_STRING_START == 2
CMD_JSON_STRING_STOP == 3

\* the response of the model: 1 status, 2 config, 3 wifi
RspKinds == 1..3

\* the compact text cJSON prints for a response: an object of n characters
\* between its braces, the inner characters telling the responses apart
RspText(kind, n) ==
    [k \in 1..n |-> IF k = 1 THEN 123 ELSE IF k = n THEN 125 ELSE 96 + kind]

\* the text lengths of the model: from "{}" to one more than the capacity
RspLengths == 2..(JSON_MAX_RSP_TEXT_LEN + 1)

\* the buffer as heap_caps_malloc returns it: not yet written, so any content
RspUnset == {[k \in Memory |-> 0], [k \in Memory |-> 170]}

\* a store of byte b at index k of the memory m
Store(m, k, b) == [m EXCEPT ![k] = b]

\* strlen: the index of the first zero byte
Strlen(m) == CHOOSE n \in Memory : m[n] = 0 /\ \A k \in 0..(n - 1) : m[k] # 0

\* cJSON_PrintPreallocated(root, buffer, length, false) succeeds when the text
\* and its terminator fit with the one spare byte that cJSON's ensure() keeps:
\* offset + needed + 1 <= length at the closing brace
PrintFits(textlen, length) == textlen + 2 <= length

\* the memory after cJSON_PrintPreallocated printed text at index at: the
\* text and its terminating zero byte
Printed(m, at, text) ==
    [k \in Memory |->
        IF k \in at..(at + Len(text) - 1) THEN text[k - at + 1]
        ELSE IF k = at + Len(text) THEN 0
        ELSE m[k]]

\* the memory after cJSON_PrintPreallocated gave up: the first n characters
\* of the text are written
PrintedPart(m, at, text, n) ==
    [k \in Memory |-> IF k \in at..(at + n - 1) THEN text[k - at + 1] ELSE m[k]]

\* line 821: the length handed to cJSON_PrintPreallocated for &json_response_text[1]
PrintLength == JSON_MAX_RSP_TEXT_LEN

\* FramedLength with the len += 1 of line 827 left out
FramedLength_no_stop(n) == n

\* line 827: the strlen of START and text, plus the STOP byte
FramedLength(n) == n + 1

\* lines 816-831, on the memory m and the text of root, of which
\* cJSON_PrintPreallocated writes the first part characters when it gives up:
\* the memory after the call, whether the print succeeded, the returned
\* length and the last index written
GenerateResponseString(m, text, part) ==
    LET m0 == Store(m, 0, CMD_JSON_STRING_START)
    IN IF ~PrintFits(Len(text), PrintLength)
       THEN [mem |-> PrintedPart(m0, 1, text, part), printed |-> FALSE, len |-> 0,
             last |-> part]
       ELSE LET m1 == Printed(m0, 1, text)
                n == Strlen(m1)
                m2 == Store(m1, n, CMD_JSON_STRING_STOP)
                m3 == Store(m2, n + 1, 0)
            IN [mem |-> m3, printed |-> TRUE, len |-> FramedLength(n),
                last |-> n + 1]

\* the numbers of characters cJSON_PrintPreallocated may have written when it
\* gives up on a text: it never writes the byte it has no room for
PrintParts(textlen, length) ==
    IF PrintFits(textlen, length) THEN {0}
    ELSE {n \in 0..(length - 1) : n <= textlen}

\* lines 195-220, 228-265, 273-323: one of json_get_config, json_get_status,
\* json_get_wifi builds its root, which fails or yields a text of any length,
\* and prints it with json_generate_response_string
GetResponse(kind) ==
    \/ /\ rsp' = [kind |-> kind, text |-> <<>>, root |-> FALSE, printed |-> FALSE, len |-> 0]
       /\ UNCHANGED <<json_response_text, beyond>>
    \/ \E textlen \in RspLengths :
       \E part \in PrintParts(textlen, PrintLength) :
          LET r == GenerateResponseString(json_response_text, RspText(kind, textlen), part)
          IN /\ json_response_text' = r.mem
             /\ beyond' = beyond \cup (JSON_MAX_RSP_TEXT_LEN..r.last)
             /\ rsp' = [kind |-> kind, text |-> RspText(kind, textlen), root |-> TRUE,
                        printed |-> r.printed, len |-> r.len]

json_get_status == cmd = "response" /\ GetResponse(1) /\ UNCHANGED <<validVars, wifiVars, imgVars, cmdVars>>
json_get_config == cmd = "response" /\ GetResponse(2) /\ UNCHANGED <<validVars, wifiVars, imgVars, cmdVars>>
json_get_wifi == cmd = "response" /\ GetResponse(3) /\ UNCHANGED <<validVars, wifiVars, imgVars, cmdVars>>

\* json_init, lines 108-124: the buffer is allocated and nothing is built yet
InitRsp ==
    /\ pcv = "ready"
    /\ cmd = "response"
    /\ ret = FALSE
    /\ ValidIdle
    /\ WifiIdle
    /\ old = [k \in {} |-> 0]
    /\ json_response_text \in RspUnset
    /\ beyond = {}
    /\ rsp = RspNone
    /\ ImgIdle
    /\ CmdIdle

NextRsp ==
    \/ json_get_status
    \/ json_get_config
    \/ json_get_wifi

SpecRsp == InitRsp /\ [][NextRsp]_vars

(***************************************************************************)
(* json_get_image_file_string and the base64 scratch buffers               *)
(***************************************************************************)
\* the heap addresses of the model
NumAddr == 3
Addr == 1..NumAddr

\* heap_caps_malloc: NULL, or an address that is not allocated
Malloc(heap) == {NULL} \cup (Addr \ heap)

\* free(p): free(NULL) does nothing
Free(heap, p) == heap \ {p}

\* free(p) of an address that is not allocated
BadFree(heap, p) == p # NULL /\ p \notin heap

Event(ev, a) == [ev |-> ev, a |-> a]

\* mbedtls_base64_encode(dst, dlen, ...) returns an error for a NULL dst and
\* either outcome otherwise
EncodeOutcomes(dst) == IF dst = NULL THEN {FALSE} ELSE {TRUE, FALSE}

\* the heap after the frees of a sequence of events
RECURSIVE Freed(_, _)
Freed(heap, evs) ==
    IF evs = <<>> THEN heap ELSE Freed(Free(heap, Head(evs).a), Tail(evs))

\* ImageEncodeFailed without the free(base64_lep_data) of line 705
ImageEncodeFailed_no_free(p) == <<>>

\* lines 704-706: what the failure branch of the image encode does
ImageEncodeFailed(p) == <<Event("free", p)>>

\* line 746: the test that guards the telemetry encode
TelemAllocated(image, telem) == image # NULL

\* lines 147-157: the call creates its root and the metadata object, which
\* always succeeds; without a root it returns 0
json_get_image_file_string ==
    /\ cmd = "image"
    /\ pc \in {"idle", "returned"}
    /\ trace' = <<>>
    /\ len' = 0
    /\ \/ pc' = "returned" /\ success' = FALSE
       \/ pc' = "image" /\ success' = TRUE
    /\ UNCHANGED <<base64_lep_data, base64_lep_telem_data, live, badfree>>
    /\ UNCHANGED <<validVars, wifiVars, rspVars, cmdVars>>

\* lines 689-717, called at line 159
json_add_lep_image_object ==
    /\ cmd = "image"
    /\ pc = "image"
    /\ \E p \in Malloc(live) :
          /\ base64_lep_data' = p
          /\ IF p # NULL
             THEN \E ok \in EncodeOutcomes(p) :
                    IF ok
                    THEN /\ live' = live \cup {p}
                         /\ trace' = trace \o <<Event("alloc", p), Event("encode", p)>>
                         /\ success' = TRUE
                         /\ pc' = "telem"
                         /\ UNCHANGED badfree
                    ELSE /\ live' = Freed(live \cup {p}, ImageEncodeFailed(p))
                         /\ trace' = trace \o <<Event("alloc", p), Event("encode", p)>>
                                      \o ImageEncodeFailed(p)
                         /\ success' = FALSE
                         /\ pc' = "delete"
                         /\ UNCHANGED badfree
             ELSE /\ success' = FALSE
                  /\ pc' = "delete"
                  /\ UNCHANGED <<live, trace, badfree>>
    /\ UNCHANGED <<base64_lep_telem_data, len>>
    /\ UNCHANGED <<validVars, wifiVars, rspVars, cmdVars>>

\* lines 736-765, called at line 161
json_add_lep_telem_object ==
    /\ cmd = "image"
    /\ pc = "telem"
    /\ \E p \in Malloc(live) :
          /\ base64_lep_telem_data' = p
          /\ IF TelemAllocated(base64_lep_data, p)
             THEN \E ok \in EncodeOutcomes(p) :
                    IF ok
                    THEN /\ live' = live \cup {p}
                         /\ trace' = trace \o <<Event("alloc", p), Event("encode", p)>>
                         /\ success' = TRUE
                         /\ pc' = "print"
                         /\ UNCHANGED badfree
                    ELSE /\ live' = Free(live \cup ({p} \ {NULL}), p)
                         /\ trace' = trace
                                      \o (IF p = NULL THEN <<>> ELSE <<Event("alloc", p)>>)
                                      \o <<Event("encode", p), Event("free", p)>>
                         /\ badfree' = (badfree \/ BadFree(live \cup ({p} \ {NULL}), p))
                         /\ success' = FALSE
                         /\ pc' = "telem_failed"
             ELSE /\ live' = live \cup ({p} \ {NULL})
                  /\ trace' = trace \o (IF p = NULL THEN <<>> ELSE <<Event("alloc", p)>>)
                  /\ success' = FALSE
                  /\ pc' = "telem_failed"
                  /\ UNCHANGED badfree
    /\ UNCHANGED <<base64_lep_data, len>>
    /\ UNCHANGED <<validVars, wifiVars, rspVars, cmdVars>>

\* lines 162-165: the image buffer is freed when the telemetry object failed
FreeImageAfterTelemFailed ==
    /\ cmd = "image"
    /\ pc = "telem_failed"
    /\ live' = Free(live, base64_lep_data)
    /\ badfree' = (badfree \/ BadFree(live, base64_lep_data))
    /\ trace' = Append(trace, Event("free", base64_lep_data))
    /\ pc' = "delete"
    /\ UNCHANGED <<base64_lep_data, base64_lep_telem_data, success, len>>
    /\ UNCHANGED <<validVars, wifiVars, rspVars, cmdVars>>

\* lines 170-175: cJSON_PrintPreallocated into the image text buffer, which
\* the text fits or not
PrintImage ==
    /\ cmd = "image"
    /\ pc = "print"
    /\ success
    /\ len' \in {0, 1}
    /\ trace' = Append(trace, Event("print", NULL))
    /\ pc' = "free"
    /\ UNCHANGED <<base64_lep_data, base64_lep_telem_data, live, success, badfree>>
    /\ UNCHANGED <<validVars, wifiVars, rspVars, cmdVars>>

\* lines 177-179: json_free_lep_base64_image and json_free_lep_base64_telem
json_free_lep_base64 ==
    /\ cmd = "image"
    /\ pc = "free"
    /\ live' = Free(Free(live, base64_lep_data), base64_lep_telem_data)
    /\ badfree' = (\/ badfree
                   \/ BadFree(live, base64_lep_data)
                   \/ BadFree(Free(live, base64_lep_data), base64_lep_telem_data))
    /\ trace' = trace \o <<Event("free", base64_lep_data),
                            Event("free", base64_lep_telem_data)>>
    /\ pc' = "delete"
    /\ UNCHANGED <<base64_lep_data, base64_lep_telem_data, success, len>>
    /\ UNCHANGED <<validVars, wifiVars, rspVars, cmdVars>>

\* lines 184-186: cJSON_Delete(root) and return len
ReturnLen ==
    /\ cmd = "image"
    /\ pc = "delete"
    /\ pc' = "returned"
    /\ UNCHANGED <<base64_lep_data, base64_lep_telem_data, live, success, len, trace,
                   badfree>>
    /\ UNCHANGED <<validVars, wifiVars, rspVars, cmdVars>>

InitImage ==
    /\ pcv = "ready"
    /\ cmd = "image"
    /\ ret = FALSE
    /\ ValidIdle
    /\ WifiIdle
    /\ RspIdle
    /\ old = [k \in {} |-> 0]
    /\ ImgIdle
    /\ CmdIdle

NextImage ==
    \/ json_get_image_file_string
    \/ json_add_lep_image_object
    \/ json_add_lep_telem_object
    \/ FreeImageAfterTelemFailed
    \/ PrintImage
    \/ json_free_lep_base64
    \/ ReturnLen

SpecImage == InitImage /\ [][NextImage]_vars

(***************************************************************************)
(* The command table, json_parse_cmd and json_get_cmd_name.                *)
(***************************************************************************)
\* line 57: the table has 13 initializers
CMD_NUM == 13

\* lines 57-71: the table.  cmd_task.h defines the text of each name and
\* the value of each code; the name is written here as its macro and the
\* codes are dense, 0 to CMD_NUM - 1 in the order of the table.
command_list ==
    << [cmd_name |-> "CMD_GET_STATUS_S", cmd_index |-> 0],
       [cmd_name |-> "CMD_GET_IMAGE_S", cmd_index |-> 1],
       [cmd_name |-> "CMD_GET_CONFIG_S", cmd_index |-> 2],
       [cmd_name |-> "CMD_SET_CONFIG_S", cmd_index |-> 3],
       [cmd_name |-> "CMD_SET_TIME_S", cmd_index |-> 4],
       [cmd_name |-> "CMD_GET_WIFI_S", cmd_index |-> 5],
       [cmd_name |-> "CMD_SET_WIFI_S", cmd_index |-> 6],
       [cmd_name |-> "CMD_SET_SPOT_S", cmd_index |-> 7],
       [cmd_name |-> "CMD_STREAM_ON_S", cmd_index |-> 8],
       [cmd_name |-> "CMD_STREAM_OFF_S", cmd_index |-> 9],
       [cmd_name |-> "CMD_RECORD_ON_S", cmd_index |-> 10],
       [cmd_name |-> "CMD_RECORD_OFF_S", cmd_index |-> 11],
       [cmd_name |-> "CMD_POWEROFF_S", cmd_index |-> 12] >>

\* line 340: the code of a name that is not in the table, set in cmd_task.h:
\* the sentinel that follows the dense codes
CMD_UNKNOWN == CMD_NUM

\* NameMatches leaving out the last entry of the table
NameMatches_skip_last(name, i) ==
    i < CMD_NUM - 1 /\ command_list[i + 1].cmd_name = name

\* line 343: strcmp(cmd_name, command_list[i].cmd_name) == 0
NameMatches(name, i) == command_list[i + 1].cmd_name = name

\* lines 340-347: the code of the first entry from i on that has the name
RECURSIVE FindName(_, _)
FindName(name, i) ==
    IF i >= CMD_NUM THEN CMD_UNKNOWN
    ELSE IF NameMatches(name, i) THEN command_list[i + 1].cmd_index
    ELSE FindName(name, i + 1)

\* line 669
IndexMatches(code, i) == command_list[i + 1].cmd_index = code

\* lines 668-674: the name of the first entry from i on that has the code
RECURSIVE FindIndex(_, _)
FindIndex(code, i) ==
    IF i >= CMD_NUM THEN "Unknown"
    ELSE IF IndexMatches(code, i) THEN command_list[i + 1].cmd_name
    ELSE FindIndex(code, i + 1)

\* lines 332-355: the return value and the outputs of json_parse_cmd; code
\* and args are the outputs as the caller passed them
ParseCmd(obj, code, args) ==
    IF obj.cmd.kind = "string"
    THEN [ret |-> TRUE, cmd |-> FindName(obj.cmd.text, 0),
          cmd_args |-> IF obj.args THEN "args" ELSE "NULL"]
    ELSE [ret |-> FALSE, cmd |-> code, cmd_args |-> args]

\* the first call, and the call on the name json_get_cmd_name returned
json_parse_cmd ==
    /\ cmd = "cmd"
    /\ pcv \in {"ready", "named"}
    /\ ret' = ParseCmd(cmd_obj, cmd_out, args_out).ret
    /\ cmd_out' = ParseCmd(cmd_obj, cmd_out, args_out).cmd
    /\ args_out' = ParseCmd(cmd_obj, cmd_out, args_out).cmd_args
    /\ pcv' = IF pcv = "ready" THEN "parsed" ELSE "reparsed"
    /\ UNCHANGED <<cmd, cmd_args, lep_st, new_st, spot, te, old, wifiVars, rspVars,
                   imgVars, cmd_obj, cmd_name>>

\* lines 664-675, called on *cmd; the caller then builds a command object
\* of the returned name; old keeps the code and the object of the call
json_get_cmd_name ==
    /\ cmd = "cmd"
    /\ pcv \in {"parsed", "code"}
    /\ cmd_name' = FindIndex(cmd_out, 0)
    /\ old' = [cmd_out |-> cmd_out, cmd_obj |-> cmd_obj]
    /\ cmd_obj' = [cmd |-> TextItem(cmd_name'), args |-> cmd_obj.args]
    /\ pcv' = "named"
    /\ UNCHANGED <<cmd, cmd_args, lep_st, new_st, spot, te, ret, wifiVars, rspVars,
                   imgVars, cmd_out, args_out>>

\* the names that are parsed: those of the table and three that are not
CmdNames ==
    {command_list[k].cmd_name : k \in DOMAIN command_list}
        \cup {"Unknown", "not-a-real-command", ""}

\* the command objects: "cmd" absent, a number or a string, "args" or none
CmdObjects ==
    [cmd : {NoItem, NumberItem} \cup {TextItem(t) : t \in CmdNames}, args : BOOLEAN]

\* an int that nothing has written yet: any content
CmdUnset == {0, 77}

\* the codes json_get_cmd_name is called on directly
CmdCodes == (0 - 2)..(CMD_NUM + 2)

InitCmd ==
    /\ cmd = "cmd"
    /\ ret = FALSE
    /\ ValidIdle
    /\ WifiIdle
    /\ RspIdle
    /\ ImgIdle
    /\ args_out = "unset"
    /\ cmd_name = ""
    /\ \/ pcv = "ready" /\ cmd_obj \in CmdObjects /\ cmd_out \in CmdUnset
       \/ pcv = "code" /\ cmd_obj = [cmd |-> NoItem, args |-> FALSE] /\ cmd_out \in CmdCodes
    /\ old = [cmd_out |-> cmd_out, cmd_obj |-> cmd_obj]

NextCmd == json_parse_cmd \/ json_get_cmd_name

SpecCmd == InitCmd /\ [][NextCmd]_vars

(***************************************************************************)
(* The whole module: cmd names the entry point that is exercised.          *)
(***************************************************************************)
Init == InitValid \/ InitIp \/ InitIpText \/ InitWifi \/ InitRsp \/ InitImage \/ InitCmd

Next == NextValid \/ NextIpText \/ NextWifi \/ NextRsp \/ NextImage \/ NextCmd

Spec == Init /\ [][Next]_vars

(***************************************************************************)
(* Claims about the validators, checked under SpecValid.                   *)
(***************************************************************************)
Called(c) == pcv = "done" /\ cmd = c
AllPresent(fields) == ~cmd_args.null /\ fields \subseteq cmd_args.has

\* C4: json_parse_set_spotmeter returns true exactly when args is present and
\* holds all of r1, c1, r2, c2, and json_parse_set_time exactly when args is
\* present and holds all of sec, min, hour, dow, day, mon, year; every other
\* subset of the fields, and absent args, returns false.
C4_AllOrNothing ==
    /\ Called("set_spotmeter") => (ret <=> AllPresent(SpotFields))
    /\ Called("set_time") => (ret <=> AllPresent(TimeFields))

\* set_time was called with six of its seven fields and failed
C4_Witness ==
    /\ Called("set_time")
    /\ ~cmd_args.null
    /\ Cardinality(cmd_args.has) = 6
    /\ ret = FALSE

\* C5: when json_parse_set_spotmeter or json_parse_set_time returns failure,
\* the caller's r1, c1, r2, c2, respectively every member of the timestamp,
\* hold the values they held before the call.
C5_FailureLeavesOutputs ==
    /\ (Called("set_spotmeter") /\ ~ret) => spot = old.spot
    /\ (Called("set_time") /\ ~ret) => te = old.te

\* C6: when json_parse_set_config succeeds from a snapshot within the
\* ConfigSnapshot ranges, the resulting emissivity is in [1,100] and the
\* resulting gain_mode in [0, SYS_GAIN_AUTO], whatever integers args holds.
C6_ConfigInRange ==
    (/\ Called("set_config")
     /\ ret
     /\ old.lep_st.emissivity \in 1..100
     /\ old.lep_st.gain_mode \in 0..SYS_GAIN_AUTO)
        => /\ new_st.emissivity \in 1..100
           /\ new_st.gain_mode \in 0..SYS_GAIN_AUTO

\* the member of json_config_t that each args field of set_config is stored in
ConfigMember ==
    [agc_enabled |-> "agc_set_enabled", emissivity |-> "emissivity", gain_mode |-> "gain_mode"]

\* C7: json_parse_set_config returns success exactly when args is present and
\* holds at least one of agc_enabled, emissivity, gain_mode; in every outcome
\* each field absent from args has, in the output, the value of the current
\* snapshot, and the snapshot is as it was before the call.
C7_ConfigMerge ==
    Called("set_config") =>
        /\ ret <=> (~cmd_args.null /\ cmd_args.has # {})
        /\ \A f \in ConfigFields \ cmd_args.has :
              new_st[ConfigMember[f]] = old.lep_st[ConfigMember[f]]
        /\ lep_st = old.lep_st

\* set_config was called with emissivity alone: it succeeded, emissivity
\* changed and gain_mode, which the caller's structure held otherwise, is the
\* snapshot's
C7_Witness ==
    /\ Called("set_config")
    /\ cmd_args.has = {"emissivity"}
    /\ ret
    /\ new_st.emissivity # lep_st.emissivity
    /\ old.new_st.gain_mode # lep_st.gain_mode
    /\ new_st.gain_mode = lep_st.gain_mode

\* the args of the example: {r1:5, c1:5, r2:200, c2:200}
SpotExample ==
    /\ AllPresent(SpotFields)
    /\ cmd_args.val = [r1 |-> 5, c1 |-> 5, r2 |-> 200, c2 |-> 200]

\* C8: when json_parse_set_spotmeter succeeds, whatever integers args holds,
\* 0 <= r1 < r2 <= LEP_HEIGHT-1 and 0 <= c1 < c2 <= LEP_WIDTH-1; on a 160x120
\* frame {r1:5, c1:5, r2:200, c2:200} yields r2 = 119 and c2 = 159.
C8_SpotRegion ==
    (Called("set_spotmeter") /\ ret) =>
        /\ 0 <= spot.r1 /\ spot.r1 < spot.r2 /\ spot.r2 <= LEP_HEIGHT - 1
        /\ 0 <= spot.c1 /\ spot.c1 < spot.c2 /\ spot.c2 <= LEP_WIDTH - 1
        /\ (SpotExample /\ LEP_WIDTH = 160 /\ LEP_HEIGHT = 120)
              => (spot.r1 = 5 /\ spot.c1 = 5 /\ spot.r2 = 119 /\ spot.c2 = 159)

\* set_spotmeter succeeded on an inverted and negative region: r2 below r1,
\* c1 negative, c2 beyond the frame
C8_Witness ==
    /\ Called("set_spotmeter")
    /\ ret
    /\ cmd_args.val["r2"] < cmd_args.val["r1"]
    /\ cmd_args.val["c1"] < 0
    /\ cmd_args.val["c2"] > LEP_WIDTH - 1
    /\ spot.r1 < spot.r2

(***************************************************************************)
(* Claims about json_parse_set_wifi, checked under SpecWifi, and about the *)
(* IP parser, checked under SpecIp.                                        *)
(***************************************************************************)
\* a present field of set_wifi is valid: a text no longer than its maximum,
\* any flags value, an address the IP parser accepts
WifiFieldValid(f) ==
    IF f \in SsidFields THEN Len(cmd_args.val[f]) <= PS_SSID_MAX_LEN
    ELSE IF f \in PwFields THEN Len(cmd_args.val[f]) <= PS_PW_MAX_LEN
    ELSE IF f = "flags" THEN TRUE
    ELSE IpStringToArray([k \in 0..3 |-> 0], cmd_args.val[f]).ok

\* C9: json_parse_set_wifi returns success exactly when args is present, at
\* least one of the eight settable fields is present and every present field
\* is valid, so that one invalid present field fails the call whatever the
\* others are; on success every absent field, and cur_ip_addr whatever args
\* holds, has the value of the prior wifi settings.
C9_WifiMerge ==
    Called("set_wifi") =>
        /\ ret <=> (/\ ~cmd_args.null
                    /\ cmd_args.has # {}
                    /\ \A f \in cmd_args.has : WifiFieldValid(f))
        /\ ret => /\ \A f \in WifiFields \ cmd_args.has : new_wifi_info[f] = old.wifi_info[f]
                  /\ new_wifi_info.cur_ip_addr = old.wifi_info.cur_ip_addr

\* set_wifi was called with an SSID of the longest length, flags and an
\* address: it succeeded, and a field that is absent has the prior value,
\* which the caller's structure did not hold
C9_Witness ==
    /\ Called("set_wifi")
    /\ cmd_args.has = {"sta_ssid", "flags", "sta_ip_addr"}
    /\ Len(cmd_args.val["sta_ssid"]) = PS_SSID_MAX_LEN
    /\ ret
    /\ new_wifi_info.ap_pw = wifi_info.ap_pw
    /\ new_wifi_info.ap_pw # old.new_wifi_info.ap_pw
    /\ new_wifi_info.sta_ssid = cmd_args.val["sta_ssid"]

Separators(s) == Cardinality({n \in 1..Len(s) : s[n] = "."})
DigitsAndSeparators(s) == \A n \in 1..Len(s) : s[n] = "." \/ IsDigit(s[n])

\* C10: the IP parser fails on a string with fewer than 3 separators, on a
\* string with more than 3 and on a string holding a character that is
\* neither a digit nor a separator; it succeeds only on a string with
\* exactly 3 separators and digit-only segments.
C10_RejectsMalformed ==
    Called("ip") => (ret <=> (Separators(ip_string) = 3 /\ DigitsAndSeparators(ip_string)))

(***************************************************************************)
(* Claims about the response buffer, checked under SpecRsp.                *)
(***************************************************************************)
\* the bytes START, text, STOP and the terminating zero need this many bytes
FramedSize(text) == Len(text) + 3

\* C2: json_generate_response_string never writes at an index at or beyond
\* JSON_MAX_RSP_TEXT_LEN, the START byte, the text from index 1, the STOP byte
\* and the terminating zero counted; a response that does not fit in the
\* buffer yields the return value 0.
C2_WithinCapacity ==
    /\ beyond = {}
    /\ (rsp.root /\ FramedSize(rsp.text) > JSON_MAX_RSP_TEXT_LEN) => rsp.len = 0

\* the memory holds START, the text from index 1, STOP right after the text
\* and a zero byte right after STOP
Framed(m, text) ==
    /\ m[0] = CMD_JSON_STRING_START
    /\ \A k \in 1..Len(text) : m[k] = text[k]
    /\ m[Len(text) + 1] = CMD_JSON_STRING_STOP
    /\ m[Len(text) + 2] = 0

\* C3 as claimed: on a successful compact-mode build the buffer holds START at
\* index 0, the text from index 1, STOP right after the text and a zero byte
\* right after STOP, and the returned length is the text length plus 1; on a
\* serialization failure the returned length is 0.
C3_FramingPlusOne ==
    rsp.root =>
        IF rsp.printed
        THEN Framed(json_response_text, rsp.text) /\ rsp.len = Len(rsp.text) + 1
        ELSE rsp.len = 0

\* C3 as amended: on a successful compact-mode build the memory at the buffer
\* holds START at index 0, the text from index 1, STOP right after the text
\* and a zero byte right after STOP, and the returned length is the text
\* length plus 2, START and STOP both counted; on a serialization failure the
\* returned length is 0.
C3_FramingPlusTwo ==
    rsp.root =>
        IF rsp.printed
        THEN Framed(json_response_text, rsp.text) /\ rsp.len = Len(rsp.text) + 2
        ELSE rsp.len = 0

\* a build of the wifi response succeeded, nothing having been written beyond
\* the buffer
C3_Witness ==
    /\ rsp.root
    /\ rsp.printed
    /\ rsp.kind = 3
    /\ Len(rsp.text) = 2
    /\ rsp.len = 4
    /\ beyond = {}

(***************************************************************************)
(* Claims about the image build, checked under SpecImage.                  *)
(***************************************************************************)
Allocs == {i \in DOMAIN trace : trace[i].ev = "alloc"}
Prints == {i \in DOMAIN trace : trace[i].ev = "print"}

\* the releases of the allocation made at position i of the trace
Releases(i) ==
    {j \in DOMAIN trace : j > i /\ trace[j].ev = "free" /\ trace[j].a = trace[i].a}

\* C1: over any sequence of json_get_image_file_string calls, whichever way
\* each ends, every base64 scratch allocation made during a call is released
\* exactly once before the call returns: not twice, not zero times, and on
\* the success path not before cJSON_PrintPreallocated has run.
C1_ReleasedExactlyOnce ==
    /\ ~badfree
    /\ \A i \in Allocs : Cardinality(Releases(i)) <= 1
    /\ pc = "returned" =>
          /\ live = {}
          /\ \A i \in Allocs : Cardinality(Releases(i)) = 1
    /\ pc \in {"print", "free"} => \A i \in Allocs : Releases(i) = {}
    /\ \A k \in Prints : \A i \in Allocs : \A j \in Releases(i) : k < j

\* a call returned a text: both buffers were allocated, then printed, then
\* released once each, and the static image pointer is left dangling
C1_Witness ==
    /\ pc = "returned"
    /\ len = 1
    /\ Cardinality(Allocs) = 2
    /\ Prints # {}
    /\ \A i \in Allocs : Cardinality(Releases(i)) = 1
    /\ trace[1].a = base64_lep_data
    /\ base64_lep_data \notin live

Encodes == {i \in DOMAIN trace : trace[i].ev = "encode"}

\* C13: the encode phase is only ever invoked with an allocated, non-null
\* output buffer; when the scratch allocation of the image or of the
\* telemetry buffer fails, json_get_image_file_string returns 0 and every
\* scratch allocation acquired in the build, the image buffer when the
\* telemetry allocation fails, is released.
C13_EncodeOnlyAllocated ==
    /\ \A i \in Encodes : trace[i].a # NULL
    /\ (pc = "returned" /\ Cardinality(Allocs) < 2) => (len = 0 /\ live = {})

\* the numeric values of the segments of s, in order; an empty segment is 0
RECURSIVE SegmentValues(_, _, _)
SegmentValues(s, n, v) ==
    IF n > Len(s) THEN <<v>>
    ELSE IF s[n] = "." THEN <<v>> \o SegmentValues(s, n + 1, 0)
    ELSE SegmentValues(s, n + 1, v * 10 + DigitValue[s[n]])

\* a dotted quad: exactly 3 separators between segments of digits only,
\* none of them empty
DottedQuad(s) ==
    /\ Separators(s) = 3
    /\ DigitsAndSeparators(s)
    /\ s # <<>> /\ s[1] # "." /\ s[Len(s)] # "."
    /\ \A n \in 1..(Len(s) - 1) : ~(s[n] = "." /\ s[n + 1] = ".")

\* C11: for every dotted-quad string, parsing it with
\* json_ip_string_to_array and formatting the array as json_get_wifi does
\* reproduces the four original numeric values in the original order.
C11_RoundTrip ==
    (pcv = "formatted" /\ DottedQuad(ip_string))
        => SegmentValues(ip_text, 1, 0) = SegmentValues(ip_string, 1, 0)

TableNames == {command_list[k].cmd_name : k \in DOMAIN command_list}
TableCodes == {command_list[k].cmd_index : k \in DOMAIN command_list}

\* the first call of json_parse_cmd was given a string as "cmd"
ParsedText(obj) == obj.cmd.kind = "string"

\* C12: the command table is a consistent bidirectional map: for a name of
\* the table, the code json_parse_cmd resolves, mapped back by
\* json_get_cmd_name and resolved again, is the same code, the code of the
\* name's entry, and the name returned is the original name; for a name
\* that is not in the table json_parse_cmd succeeds with CMD_UNKNOWN; and
\* json_get_cmd_name of a code that is not in the table returns "Unknown",
\* which resolves to CMD_UNKNOWN.
C12_BidirectionalMap ==
    /\ (cmd = "cmd" /\ pcv = "reparsed" /\ ParsedText(old.cmd_obj)
            /\ old.cmd_obj.cmd.text \in TableNames)
        => /\ ret
           /\ cmd_out = old.cmd_out
           /\ cmd_name = old.cmd_obj.cmd.text
           /\ \E k \in DOMAIN command_list :
                 command_list[k] = [cmd_name |-> cmd_name, cmd_index |-> cmd_out]
    /\ (cmd = "cmd" /\ pcv = "parsed" /\ ParsedText(cmd_obj)
            /\ cmd_obj.cmd.text \notin TableNames)
        => (ret /\ cmd_out = CMD_UNKNOWN)
    /\ (cmd = "cmd" /\ pcv \in {"named", "reparsed"} /\ old.cmd_out \notin TableCodes)
        => /\ cmd_name = "Unknown"
           /\ pcv = "reparsed" => (ret /\ cmd_out = CMD_UNKNOWN)

\* the last name of the table has been resolved, mapped back and resolved again
C12_Witness ==
    /\ cmd = "cmd"
    /\ pcv = "reparsed"
    /\ ParsedText(old.cmd_obj)
    /\ old.cmd_obj.cmd.text = command_list[CMD_NUM].cmd_name
    /\ cmd_out = command_list[CMD_NUM].cmd_index

====
